---- MODULE Spec2Model ----
(***************************************************************************)
(* State-diff: one run of analyze_block (src/src/main.rs) against an       *)
(* Ethereum node.  The node is the environment: it answers the get-block,  *)
(* get-receipt, balance and transaction-count queries, and any query may   *)
(* fail with a transport error.  The run is sequential (every call is      *)
(* awaited before the next is issued), so one action is one call of the    *)
(* pipeline or one iteration of one of its two loops.                      *)
(*                                                                         *)
(* Scaling.  H160 is 40 hex digits and U256 is 256 bits wide; the model    *)
(* keeps both shapes with AddrLen digits and UBits bits.  Block fields     *)
(* that get_block_info only copies (timestamp, parent_hash, nonce,         *)
(* difficulty, total_difficulty, gas_used, gas_limit) are left out.        *)
(***************************************************************************)
EXTENDS Integers, Sequences, FiniteSets, TLC

\* ---------------------------------------------------------------- bounds
AddrLen == 2      \* hex digits of an address (40 in H160)
UBits == 8        \* bits of a balance / nonce (256 in U256)
MaxTxs == 2       \* transactions of a block
LatestBlock == 1  \* number of the node's latest block

\* ---------------------------------------------------------------- Option<T>
None == <<>>
Some(x) == <<x>>
IsSome(o) == o # <<>>
Unwrap(o) == o[1]

\* ---------------------------------------------------------------- addresses
HexDigits == {"0", "1"}
Addr == [1..AddrLen -> HexDigits]

AddrA == [i \in 1..AddrLen |-> IF i = AddrLen THEN "1" ELSE "0"]
AddrB == [i \in 1..AddrLen |-> IF i = 1 THEN "1" ELSE "0"]
AddrC == [i \in 1..AddrLen |-> "0"]
AddrD == [i \in 1..AddrLen |-> "1"]

\* format!("{:?}", h) of a fixed hash: "0x" and every hex digit
DebugFormat(h) == <<"0", "x">> \o h

TrimChars == {"\"", "0", "x"}

RECURSIVE TrimStart(_)
TrimStart(s) ==
  IF s # <<>> /\ Head(s) \in TrimChars THEN TrimStart(Tail(s)) ELSE s

RECURSIVE TrimEnd(_)
TrimEnd(s) ==
  IF s # <<>> /\ s[Len(s)] \in TrimChars
  THEN TrimEnd(SubSeq(s, 1, Len(s) - 1))
  ELSE s

\* str::trim_matches: strips the matching characters from both ends
TrimMatches(s) == TrimEnd(TrimStart(s))

\* H160::from_str: an optional "0x", then exactly AddrLen hex digits
FromStr(s) ==
  LET t == IF Len(s) >= 2 /\ SubSeq(s, 1, 2) = <<"0", "x">>
           THEN SubSeq(s, 3, Len(s)) ELSE s
  IN  IF Len(t) = AddrLen /\ \A i \in 1..Len(t) : t[i] \in HexDigits
      THEN Some(t) ELSE None

\* ---------------------------------------------------------------- U256
Modulus == 2 ^ UBits

\* U256::overflowing_sub(..).0: the difference, wrapped into 0 .. 2^bits - 1
SaturatingSubMutant(a, b) == IF a >= b THEN a - b ELSE 0
SignedSubMutant(a, b) == a - b
OverflowingSub(a, b) == IF a >= b THEN a - b ELSE Modulus - (b - a)

\* u64::saturating_sub(1)
WrappingPrevMutant(n) == n - 1
PrevBlock(n) == IF n >= 1 THEN n - 1 ELSE 0

\* prev_balance != current_balance || prev_nonce != current_nonce
BalanceOnlyMutant(pb, pn, cb, cn) == pb # cb
StateChanged(pb, pn, cb, cn) == pb # cb \/ pn # cn

\* ---------------------------------------------------------------- the node
\* Transactions a block may hold: hash, from, to, value as the node reports
\* them, and the receipt the node has for the hash (none, or one with or
\* without gas_used).
TxPool ==
  { [hash |-> <<"t", "1">>, from |-> Some(AddrA), to |-> Some(AddrB), value |-> 10,
     receipt |-> Some([gas_used |-> Some(21)])],
    [hash |-> <<"t", "2">>, from |-> Some(AddrC), to |-> Some(AddrA), value |-> 5,
     receipt |-> Some([gas_used |-> None])],
    [hash |-> <<"t", "3">>, from |-> None, to |-> Some(AddrB), value |-> 0,
     receipt |-> Some([gas_used |-> Some(21)])],
    [hash |-> <<"t", "4">>, from |-> Some(AddrA), to |-> None, value |-> 0,
     receipt |-> None] }

TxLists == UNION { [1..n -> TxPool] : n \in 0..MaxTxs }

BlockHashes == {None, Some(<<"b", "h">>)}
BlockSizes == {None, Some(2)}

\* The block responses of the node for block number n.
Blocks(n) ==
  [number : {None, Some(n)}, hash : BlockHashes, size : BlockSizes,
   author : Addr, transactions : TxLists]

\* Account states of the node: the state at an even block and at an odd
\* block, so that a block and its parent show the two states of each row.
Ledgers == {"transfers", "other"}

Account(b, n) == [balance |-> b, nonce |-> n]

AccountStates(l, a) ==
  IF l = "transfers"
  THEN CASE a = AddrA -> <<Account(100, 0), Account(95, 1)>>
         [] a = AddrB -> <<Account(0, 0), Account(10, 0)>>
         [] a = AddrC -> <<Account(50, 0), Account(45, 1)>>
         [] OTHER -> <<Account(7, 3), Account(7, 3)>>
  ELSE CASE a = AddrA -> <<Account(7, 0), Account(7, 1)>>
         [] a = AddrB -> <<Account(0, 0), Account(0, 0)>>
         [] a = AddrC -> <<Account(9, 1), Account(5, 0)>>
         [] OTHER -> <<Account(3, 0), Account(8, 0)>>

\* eth().balance / eth().transaction_count of address a at block n
AccountAt(l, a, n) == AccountStates(l, a)[(n % 2) + 1]

\* ---------------------------------------------------------------- state
VARIABLES
  ledger,         \* the node's account states
  block_number,   \* analyze_block's argument: Option<u64>
  pc,             \* where the run is
  block,          \* the fetched block (Option)
  next_tx,        \* index of the next transaction of the receipt loop
  transactions,   \* Vec<TransactionInfo> of get_block_info
  block_info,     \* Option<BlockInfo>
  addresses,      \* keys of the HashMap of get_state_changes
  remaining,      \* keys the loop over addresses.keys() has not visited
  prev_block,     \* parent block number
  changes,        \* Vec<StateChange>
  result,         \* Option<BlockAnalysis> returned by analyze_block
  error,          \* the error returned ("" when none)
  log             \* the queries issued to the node, in order

vars == <<ledger, block_number, pc, block, next_tx, transactions, block_info,
          addresses, remaining, prev_block, changes, result, error, log>>

Query(kind, var, arg, at, ok, val) ==
  [kind |-> kind, var |-> var, arg |-> arg, at |-> at, ok |-> ok, val |-> val]

Init ==
  /\ ledger \in Ledgers
  /\ block_number \in {None} \cup {Some(n) : n \in 0..LatestBlock}
  /\ pc = "get_block_info"
  /\ block = None
  /\ next_tx = 1
  /\ transactions = <<>>
  /\ block_info = None
  /\ addresses = {}
  /\ remaining = {}
  /\ prev_block = 0
  /\ changes = <<>>
  /\ result = None
  /\ error = ""
  /\ log = <<>>

\* ---------------------------------------------------------------- helpers
\* BlockId of the request: the number given, or the latest block
Resolve(bn) == IF IsSome(bn) THEN Unwrap(bn) ELSE LatestBlock

\* `?` on a failed call: the function returns the error to its caller
SwallowErrorMutant == "state_changes"
PropagatePc == "err"

\* .ok_or("Block not found")?
RetryFetchMutant == "get_block_info"
NotFoundPc == "err"

\* tx.from.ok_or("Transaction missing 'from' address")
DefaultFromMutant(tx) == IF IsSome(tx.from) THEN tx.from ELSE Some(AddrC)
RequireFrom(tx) == tx.from

\* transaction_receipt(hash): the receipt the node holds for the hash
ReceiptOf(h) == (CHOOSE t \in TxPool : t.hash = h).receipt

\* receipt.and_then(|r| r.gas_used)
GasUsed(receipt) == IF IsSome(receipt) THEN Unwrap(receipt).gas_used ELSE None

\* the loop inserting tx.from and tx.to into the HashMap
SendersOnlyMutant(txs) == { txs[i].from : i \in DOMAIN txs }
CollectTxAddresses(txs) ==
  UNION { {txs[i].from} \cup (IF IsSome(txs[i].to) THEN {Unwrap(txs[i].to)} ELSE {})
          : i \in DOMAIN txs }

\* trim_matches on the miner string, then H160::from_str; dropped on Err
MinerAddress(miner) ==
  LET parsed == FromStr(TrimMatches(miner))
  IN  IF IsSome(parsed) THEN {Unwrap(parsed)} ELSE {}

\* ---------------------------------------------------------------- actions
\* get_block_info: block_with_txs(block_id).await?.ok_or("Block not found")?
FetchBlock ==
  /\ pc = "get_block_info"
  /\ \/ /\ log' = Append(log, Query("block", "block", <<>>, block_number, FALSE, 0))
        /\ pc' = PropagatePc
        /\ error' = "transport"
        /\ UNCHANGED block
     \/ /\ log' = Append(log, Query("block", "block", <<>>, block_number, TRUE, 0))
        /\ pc' = NotFoundPc
        /\ error' = "Block not found"
        /\ UNCHANGED block
     \/ \E b \in Blocks(Resolve(block_number)) :
          /\ log' = Append(log, Query("block", "block", <<>>, block_number, TRUE, 1))
          /\ block' = Some(b)
          /\ pc' = "receipts"
          /\ UNCHANGED error
  /\ UNCHANGED <<ledger, block_number, next_tx, transactions, block_info, addresses,
                 remaining, prev_block, changes, result>>

\* one iteration of `for tx in block.transactions`
EnrichTransaction ==
  /\ pc = "receipts"
  /\ next_tx <= Len(Unwrap(block).transactions)
  /\ LET tx == Unwrap(block).transactions[next_tx]
         from == RequireFrom(tx)
     IN  \/ /\ log' = Append(log, Query("receipt", "receipt", tx.hash, None, FALSE, 0))
            /\ pc' = PropagatePc
            /\ error' = "transport"
            /\ UNCHANGED <<next_tx, transactions>>
         \/ /\ log' = Append(log, Query("receipt", "receipt", tx.hash, None, TRUE, 0))
            /\ IF IsSome(from)
               THEN /\ transactions' =
                         Append(transactions,
                                [hash |-> tx.hash, from |-> Unwrap(from), to |-> tx.to,
                                 value |-> tx.value,
                                 gas_used |-> GasUsed(ReceiptOf(tx.hash))])
                    /\ next_tx' = next_tx + 1
                    /\ UNCHANGED <<pc, error>>
               ELSE /\ pc' = PropagatePc
                    /\ error' = "Transaction missing 'from' address"
                    /\ UNCHANGED <<next_tx, transactions>>
  /\ UNCHANGED <<ledger, block_number, block, block_info, addresses, remaining,
                 prev_block, changes, result>>

\* the BlockInfo literal after the loop; block.number.unwrap() panics on None
BuildBlockInfo ==
  /\ pc = "receipts"
  /\ next_tx > Len(Unwrap(block).transactions)
  /\ LET b == Unwrap(block)
     IN  IF IsSome(b.number)
         THEN /\ block_info' =
                   Some([block_number |-> Unwrap(b.number),
                         hash |-> IF IsSome(b.hash)
                                  THEN DebugFormat(Unwrap(b.hash)) ELSE <<>>,
                         miner |-> DebugFormat(b.author),
                         size |-> IF IsSome(b.size) THEN Unwrap(b.size) ELSE 0,
                         transactions |-> transactions])
              /\ pc' = "get_state_changes"
         ELSE /\ pc' = "panic"
              /\ UNCHANGED block_info
  /\ UNCHANGED <<ledger, block_number, block, next_tx, transactions, addresses,
                 remaining, prev_block, changes, result, error, log>>

\* get_state_changes up to its query loop: the address map and prev_block
CollectAddresses ==
  /\ pc = "get_state_changes"
  /\ LET info == Unwrap(block_info)
         keys == CollectTxAddresses(info.transactions) \cup MinerAddress(info.miner)
     IN  /\ addresses' = keys
         /\ remaining' = keys
         /\ prev_block' = PrevBlock(info.block_number)
  /\ pc' = "state_changes"
  /\ UNCHANGED <<ledger, block_number, block, next_tx, transactions, block_info,
                 changes, result, error, log>>

\* the four queries of one address, in the order the loop body issues them
AddressQueries(address) ==
  LET cur == Unwrap(block_info).block_number
      prev == AccountAt(ledger, address, prev_block)
      current == AccountAt(ledger, address, cur)
  IN  << Query("balance", "prev_balance", address, Some(prev_block), TRUE, prev.balance),
         Query("nonce", "prev_nonce", address, Some(prev_block), TRUE, prev.nonce),
         Query("balance", "current_balance", address, Some(cur), TRUE, current.balance),
         Query("nonce", "current_nonce", address, Some(cur), TRUE, current.nonce) >>

Failed(q) == [q EXCEPT !.ok = FALSE, !.val = 0]

\* one iteration of `for address in addresses.keys()`, in any key order;
\* failed = 0 when the four queries succeed, else the index of the one failing
DiffAddress ==
  /\ pc = "state_changes"
  /\ \E address \in remaining, failed \in 0..4 :
       LET qs == AddressQueries(address)
           prev_balance == qs[1].val
           prev_nonce == qs[2].val
           current_balance == qs[3].val
           current_nonce == qs[4].val
       IN  IF failed = 0
           THEN /\ log' = log \o qs
                /\ changes' =
                     IF StateChanged(prev_balance, prev_nonce, current_balance, current_nonce)
                     THEN Append(changes,
                            [address |-> address,
                             balance_change |->
                               Some(OverflowingSub(current_balance, prev_balance)),
                             nonce_change |->
                               Some(OverflowingSub(current_nonce, prev_nonce))])
                     ELSE changes
                /\ remaining' = remaining \ {address}
                /\ UNCHANGED <<pc, error>>
           ELSE /\ log' = log \o SubSeq(qs, 1, failed - 1) \o <<Failed(qs[failed])>>
                /\ pc' = PropagatePc
                /\ error' = "transport"
                /\ UNCHANGED <<changes, remaining>>
  /\ UNCHANGED <<ledger, block_number, block, next_tx, transactions, block_info,
                 addresses, prev_block, result>>

\* Ok(changes), then analyze_block's Ok(BlockAnalysis { .. })
ReturnAnalysis ==
  /\ pc = "state_changes"
  /\ remaining = {}
  /\ result' = Some([block_info |-> Unwrap(block_info), state_changes |-> changes])
  /\ pc' = "ok"
  /\ UNCHANGED <<ledger, block_number, block, next_tx, transactions, block_info,
                 addresses, remaining, prev_block, changes, error, log>>

Next ==
  \/ FetchBlock
  \/ EnrichTransaction
  \/ BuildBlockInfo
  \/ CollectAddresses
  \/ DiffAddress
  \/ ReturnAnalysis

Spec == Init /\ [][Next]_vars

\* ---------------------------------------------------------------- reading the run
Terminal == pc \in {"ok", "err", "panic"}

\* the address map has been built
Collected == pc \in {"state_changes", "ok"}

RawTxs == Unwrap(block).transactions

\* the parent of block n, as the specification states it
ParentNumber(n) == IF n > 0 THEN n - 1 ELSE 0

\* indices of the successful queries of `kind` for address a at block n
Answers(kind, a, n) ==
  { i \in DOMAIN log : /\ log[i].kind = kind /\ log[i].arg = a
                       /\ log[i].at = Some(n) /\ log[i].ok }

\* the value the node answered (one per address, kind and block: the node's
\* history does not change during a run)
Answer(kind, a, n) == log[CHOOSE i \in Answers(kind, a, n) : TRUE].val

Target == Unwrap(block_info).block_number
Parent == ParentNumber(Target)

BalanceDiffers(a) == Answer("balance", a, Parent) # Answer("balance", a, Target)
NonceDiffers(a) == Answer("nonce", a, Parent) # Answer("nonce", a, Target)

Entries(sc, a) == { i \in DOMAIN sc : sc[i].address = a }

\* addresses the query loop has finished
Visited == addresses \ remaining

\* C1: in the result of a run, an address of the address set has a StateChange
\* if and only if its balance or its nonce, as queried at the parent block and
\* at the target block, differ; an unchanged address never appears, and no
\* address outside the set does.
C1_ChangeIffDiffers ==
  pc = "ok" =>
    LET sc == Unwrap(result).state_changes
    IN  /\ \A a \in addresses :
             /\ Entries(sc, a) # {} <=> (BalanceDiffers(a) \/ NonceDiffers(a))
             /\ Cardinality(Entries(sc, a)) <= 1
        /\ \A i \in DOMAIN sc : sc[i].address \in addresses

C1_Witness ==
  /\ pc = "ok"
  /\ \E a, b \in addresses :
       /\ Entries(Unwrap(result).state_changes, a) # {}
       /\ ~BalanceDiffers(a) /\ NonceDiffers(a)
       /\ Entries(Unwrap(result).state_changes, b) = {}

\* C2: every StateChange holds both deltas, each (current - previous) modulo
\* 2^bits of the values queried; an address whose current value is lower than
\* the previous one gets its wrapped delta like any other, with no failure.
C2_WrappedDeltas ==
  Collected =>
    /\ \A i \in DOMAIN changes :
         LET a == changes[i].address
         IN  /\ changes[i].balance_change =
                  Some((Answer("balance", a, Target) - Answer("balance", a, Parent)) % Modulus)
             /\ changes[i].nonce_change =
                  Some((Answer("nonce", a, Target) - Answer("nonce", a, Parent)) % Modulus)
    /\ \A a \in Visited :
         (Answer("balance", a, Target) < Answer("balance", a, Parent)
            \/ Answer("nonce", a, Target) < Answer("nonce", a, Parent))
         => Entries(changes, a) # {}

C2_Witness ==
  /\ pc = "ok"
  /\ \E i, j \in DOMAIN changes :
       /\ Answer("balance", changes[i].address, Target)
            < Answer("balance", changes[i].address, Parent)
       /\ Answer("nonce", changes[j].address, Target)
            < Answer("nonce", changes[j].address, Parent)

\* C3: the sender and, when present, the recipient of every transaction of the
\* block are in the address set, and in a completed run each of them was asked
\* for balance and nonce at the parent and at the target block, once per
\* query of the loop body however many transactions name it.
C3_TxAddressesQueried ==
  Collected =>
    \A k \in DOMAIN RawTxs :
      LET tx == RawTxs[k]
          named == {Unwrap(tx.from)} \cup (IF IsSome(tx.to) THEN {Unwrap(tx.to)} ELSE {})
      IN  /\ named \subseteq addresses
          /\ pc = "ok" =>
               \A a \in named :
                 \A v \in {"prev_balance", "prev_nonce", "current_balance", "current_nonce"} :
                   Cardinality({ i \in DOMAIN log : log[i].var = v /\ log[i].arg = a
                                                     /\ log[i].ok }) = 1

C3_Witness ==
  /\ pc = "ok"
  /\ Len(RawTxs) = 2
  /\ IsSome(RawTxs[1].to) /\ IsSome(RawTxs[2].to)
  /\ RawTxs[1].from = RawTxs[2].to
  /\ RawTxs[1].to # RawTxs[2].from

\* C4: the proposer of the block is in the address set whatever its hex
\* digits: its rendered string parses back to the same address.
C4_ProposerInAddressSet ==
  Collected =>
    /\ FromStr(TrimMatches(Unwrap(block_info).miner)) = Some(Unwrap(block).author)
    /\ Unwrap(block).author \in addresses

\* C5: the parent queries use block n-1 when n > 0 and block 0 when n = 0,
\* never a negative number, and a run on block 0 does not fail on computing it.
C5_ParentSaturates ==
  /\ IsSome(block_info) =>
       \A i \in DOMAIN log :
         log[i].var \in {"prev_balance", "prev_nonce"} =>
           /\ log[i].at = Some(ParentNumber(Target))
           /\ Unwrap(log[i].at) >= 0
  /\ Collected => prev_block = ParentNumber(Target) /\ prev_block >= 0
  /\ pc = "panic" => ~IsSome(Unwrap(block).number)

C5_Witness ==
  /\ pc = "ok"
  /\ Target = 0
  /\ \E i \in DOMAIN log : log[i].var = "prev_balance" /\ log[i].at = Some(0)

\* The scenario of C6: transactions A->B (10 wei) and C->A (5 wei); balances
\* A 100 -> 95, B 0 -> 10, C 50 -> 45; the senders' nonces one higher, B's
\* nonce and the proposer's state unchanged.
Moves(a, n, from_balance, to_balance, nonce_step) ==
  LET before == AccountAt(ledger, a, ParentNumber(n))
      after == AccountAt(ledger, a, n)
  IN  /\ before.balance = from_balance
      /\ after.balance = to_balance
      /\ after.nonce = before.nonce + nonce_step

Scenario ==
  /\ IsSome(block)
  /\ IsSome(Unwrap(block).number)
  /\ Len(RawTxs) = 2
  /\ RawTxs[1].from = Some(AddrA) /\ RawTxs[1].to = Some(AddrB) /\ RawTxs[1].value = 10
  /\ RawTxs[2].from = Some(AddrC) /\ RawTxs[2].to = Some(AddrA) /\ RawTxs[2].value = 5
  /\ LET n == Unwrap(Unwrap(block).number)
     IN  /\ Moves(AddrA, n, 100, 95, 1)
         /\ Moves(AddrB, n, 0, 10, 0)
         /\ Moves(AddrC, n, 50, 45, 1)
         /\ AccountAt(ledger, Unwrap(block).author, ParentNumber(n))
              = AccountAt(ledger, Unwrap(block).author, n)

Change(a, balance_delta, nonce_delta) ==
  [address |-> a, balance_change |-> Some(balance_delta),
   nonce_change |-> Some(nonce_delta)]

ReturnedChanges ==
  { Unwrap(result).state_changes[i] : i \in DOMAIN Unwrap(result).state_changes }

\* C6 as claimed: the scenario returns exactly three entries with the signed
\* balance deltas A = -5, B = +10, C = -5 and nonce deltas +1, 0, +1.
C6_SignedDeltas ==
  (Scenario /\ pc = "ok") =>
    /\ Len(Unwrap(result).state_changes) = 3
    /\ ReturnedChanges =
         {Change(AddrA, -5, 1), Change(AddrB, 10, 0), Change(AddrC, -5, 1)}

\* C6 as amended: the scenario returns exactly three entries; the balance
\* deltas of A and C are the unsigned value 2^bits - 5 (that is, -5 modulo
\* 2^bits), the one of B is 10; the nonce deltas are 1 for A and C, 0 for B.
C6_WrappedScenario ==
  (Scenario /\ pc = "ok") =>
    /\ Len(Unwrap(result).state_changes) = 3
    /\ ReturnedChanges =
         {Change(AddrA, Modulus - 5, 1), Change(AddrB, 10, 0),
          Change(AddrC, Modulus - 5, 1)}

C6_Witness ==
  /\ Scenario
  /\ pc = "ok"
  /\ Unwrap(block).author \in addresses

Senderless == { k \in DOMAIN RawTxs : ~IsSome(RawTxs[k].from) }
FirstSenderless == CHOOSE k \in Senderless : \A m \in Senderless : k <= m

QueriesOf(kinds) == { i \in DOMAIN log : log[i].kind \in kinds }

\* C8 as claimed: with a transaction without sender the run fails with the
\* missing-sender error, and no receipt, balance or nonce query is issued
\* once the block has been received (read for the runs where no query fails).
C8_NoQueryAfterBlock ==
  (IsSome(block) /\ Senderless # {} /\ \A i \in DOMAIN log : log[i].ok) =>
    /\ QueriesOf({"receipt", "balance", "nonce"}) = {}
    /\ Terminal => (pc = "err" /\ error = "Transaction missing 'from' address")

\* C8 as amended: with a transaction without sender the run returns an error
\* and no BlockAnalysis.  Receipts are queried in order for the transactions
\* up to and including the first one without sender and for no later one; no
\* balance or nonce query is issued.  The error is the missing-sender error
\* when all those receipt queries succeed, and else the error of the receipt
\* query that failed.
C8_StopsAtSenderless ==
  (IsSome(block) /\ Senderless # {}) =>
    /\ pc \in {"receipts", "err"}
    /\ result = None
    /\ QueriesOf({"balance", "nonce"}) = {}
    /\ Len(log) <= FirstSenderless + 1
    /\ \A i \in 2..Len(log) :
         log[i].kind = "receipt" /\ log[i].arg = RawTxs[i - 1].hash
    /\ pc = "err" =>
         IF log[Len(log)].ok
         THEN /\ Len(log) = FirstSenderless + 1
              /\ error = "Transaction missing 'from' address"
         ELSE error = "transport"
    /\ pc = "receipts" => Len(log) <= FirstSenderless

C8_Witness ==
  /\ IsSome(block)
  /\ Senderless # {}
  /\ FirstSenderless = 2
  /\ pc = "err"
  /\ error = "Transaction missing 'from' address"
  /\ Cardinality(QueriesOf({"receipt"})) = 2

\* C9: when the node answers the get-block call with no block, the run ends
\* with the not-found error after that one call: no retry, no other query.
NoBlockReported == log # <<>> /\ log[1].kind = "block" /\ log[1].ok /\ log[1].val = 0

C9_NotFoundOneRoundTrip ==
  NoBlockReported =>
    /\ pc = "err"
    /\ error = "Block not found"
    /\ Len(log) = 1
    /\ result = None
    /\ block = None

C9_Witness ==
  /\ NoBlockReported
  /\ pc = "err"
  /\ \E i \in DOMAIN log : log[i].at = None

\* C10: a block response without `number` ends the run with an error value
\* returned to the caller; a missing `hash` renders as the empty string and a
\* missing `size` as zero, neither being an error.
C10_MissingFields ==
  /\ (IsSome(block) /\ ~IsSome(Unwrap(block).number)) =>
       /\ pc # "panic"
       /\ Terminal => (pc = "err" /\ error # "")
  /\ IsSome(block_info) =>
       /\ ~IsSome(Unwrap(block).hash) => Unwrap(block_info).hash = <<>>
       /\ ~IsSome(Unwrap(block).size) => Unwrap(block_info).size = 0
====
